---- MODULE Spec2Model ----
(***************************************************************************)
(* Model of statute_to_json: the plain-text and markup tree builders       *)
(* (tools/parse_statute.py) and the cross-reference resolver               *)
(* (tools/resolve_links.py).                                               *)
(*                                                                         *)
(* A text is a sequence of elements.  An element is a one-character string *)
(* or, for the keywords the resolver's patterns spell out literally, the   *)
(* whole keyword as one element.  Positions are 1-based; a Python slice    *)
(* s[a:b] is SubSeq(s, a+1, b).                                            *)
(***************************************************************************)
EXTENDS Integers, Sequences, FiniteSets, TLC

\* ------------------------------------------------------------------------
\* Characters and character classes
\* ------------------------------------------------------------------------

\* Python's None, as a text no input contains.
None == <<"<None>">>

SEC == "§"
NL == "\n"
TAB == "\t"
NBSP == "<nbsp>"

Digit == {"0", "1", "2", "3", "4", "5", "6", "7", "8", "9"}

Lower == {"a", "b", "c", "d", "e", "f", "g", "h", "i", "j", "k", "l", "m",
          "n", "o", "p", "q", "r", "s", "t", "u", "v", "w", "x", "y", "z"}

Upper == {"A", "B", "C", "D", "E", "F", "G", "H", "I", "J", "K", "L", "M",
          "N", "O", "P", "Q", "R", "S", "T", "U", "V", "W", "X", "Y", "Z"}

RomanLower == {"i", "v", "x", "l", "c", "d", "m"}

RomanUpper == {"I", "V", "X", "L", "C", "D", "M"}

\* The nouns of REL_REF and THIS_REF, with the capitalised spellings that
\* re.IGNORECASE also accepts.
Nouns == {"paragraph", "subparagraph", "clause", "subclause", "subsection"}

NounsAnyCase == Nouns \cup {"Paragraph", "Subsection"}

\* Keywords written as one element: runs of letters, with single spaces
\* inside the cue phrases; the capitalised spellings are those the inputs
\* use.
Keywords ==
    NounsAnyCase \cup {"section", "this", "for purposes of", "subject to",
                       "except as provided", "notwithstanding", "the term",
                       "means", "and", "expenses", "For purposes of"}

\* \s of the re module.
Space == {" ", NL, TAB}

\* \w of the re module: what \b tells apart from the rest.
WordEl == Digit \cup Lower \cup Upper \cup {"_"} \cup Keywords

\* [0-9A-Za-z\-] of HEADER_USC, and [0-9A-Za-z\.\-] of ABS_REF.
AlnumHyphen == Digit \cup Lower \cup Upper \cup {"-"}

Range1(s) == {s[k] : k \in 1..Len(s)}

Min(S) == CHOOSE m \in S : \A k \in S : m <= k

Max(S) == CHOOSE m \in S : \A k \in S : m >= k

\* A local variable of the code: the value v, computed once, under the
\* name the body F gives it.
With(v, F(_)) == F(v)

\* The first position >= i of s holding no element of S (Len(s)+1 if none):
\* where a greedy run [S]* that starts at i ends.
SkipSet(s, i, S) ==
    Min({k \in i..(Len(s) + 1) : k = Len(s) + 1 \/ s[k] \notin S})

\* str.strip(): without the leading and trailing elements of S.
StripSet(s, S) ==
    LET keep == {k \in 1..Len(s) : s[k] \notin S}
    IN  IF keep = {} THEN <<>> ELSE SubSeq(s, Min(keep), Max(keep))

Strip(s) == StripSet(s, Space)

\* str.rstrip(chars)
RStripSet(s, S) ==
    LET keep == {k \in 1..Len(s) : s[k] \notin S}
    IN  IF keep = {} THEN <<>> ELSE SubSeq(s, 1, Max(keep))

\* The number of characters of a text (a keyword counts its letters).
RECURSIVE CharLen(_)
CharLen(s) == IF s = <<>> THEN 0 ELSE Len(Head(s)) + CharLen(Tail(s))

\* Whether pattern p (a sequence of elements) occurs in s at position i.
OccursAt(s, i, p) ==
    /\ i >= 1
    /\ i + Len(p) - 1 <= Len(s)
    /\ \A k \in 1..Len(p) : s[i + k - 1] = p[k]

RECURSIVE Concat(_)
Concat(ss) == IF ss = <<>> THEN <<>> ELSE Head(ss) \o Concat(Tail(ss))

\* ------------------------------------------------------------------------
\* normalize
\* ------------------------------------------------------------------------

\* The first two substitutions: a non-breaking space, and a tab (the
\* alphabet's one character of [\t\f\r]), become a space.  A run of tabs
\* becomes one space, which the collapse of space runs below also yields.
ToSpaces(s) ==
    [k \in 1..Len(s) |-> IF s[k] \in {NBSP, TAB} THEN " " ELSE s[k]]

\* re.sub(r"[ ]{2,}", " ", text)
CollapseSpaces(s) ==
    LET keep == {k \in 1..Len(s) : ~(s[k] = " " /\ k > 1 /\ s[k - 1] = " ")}
        RECURSIVE pick(_)
        pick(k) == IF k > Len(s) THEN <<>>
                   ELSE (IF k \in keep THEN <<s[k]>> ELSE <<>>) \o pick(k + 1)
    IN  pick(1)

normalize(text) == Strip(CollapseSpaces(ToSpaces(text)))

\* str.split("\n")
RECURSIVE SplitLines(_)
SplitLines(s) ==
    LET e == SkipSet(s, 1, {c \in Range1(s) : c # NL})
    IN  IF e > Len(s) THEN <<s>>
        ELSE <<SubSeq(s, 1, e - 1)>> \o SplitLines(SubSeq(s, e + 1, Len(s)))

\* ------------------------------------------------------------------------
\* HEADER_CFR, HEADER_USC
\* ------------------------------------------------------------------------

\* (?m)^ : the start of the text or the position after a line break.
LineStart(s, p) == p = 1 \/ (p > 1 /\ p <= Len(s) + 1 /\ s[p - 1] = NL)

\* The tail both patterns share, \s*(.*)$ from position q: the whitespace
\* run (line breaks included), then the rest of the line it ends on.  It
\* always matches; [end] is the last position of the match.
HeaderTail(s, q) ==
    LET h == SkipSet(s, q, Space)
        e == SkipSet(s, h, Range1(s) \ {NL})
    IN  [heading |-> SubSeq(s, h, e - 1), end |-> e - 1]

\* (U\.?S\.?C\.?)? at position q: the position after it (q if it is absent).
AfterUSC(s, q) ==
    LET dot(k) == IF k <= Len(s) /\ s[k] = "." THEN k + 1 ELSE k
        is(k, c) == k <= Len(s) /\ s[k] = c
        a == dot(q + 1)
        b == dot(a + 1)
    IN  IF is(q, "U") /\ is(a, "S") /\ is(b, "C") THEN dot(b + 1) ELSE q

NoMatch == [found |-> FALSE]

\* HEADER_USC matched at position p:
\* ^(\d+)\s*(U\.?S\.?C\.?)?\s*§\s*([0-9A-Za-z\-]+)\s*(.*)$
MatchUSC(s, p) ==
    LET t == SkipSet(s, p, Digit)
        q1 == SkipSet(s, t, Space)
        q2 == AfterUSC(s, q1)
        q3 == SkipSet(s, q2, Space)
        q4 == SkipSet(s, q3 + 1, Space)
        se == SkipSet(s, q4, AlnumHyphen)
        tl == HeaderTail(s, se)
    IN  IF /\ LineStart(s, p)
           /\ t > p
           /\ q3 <= Len(s)
           /\ s[q3] = SEC
           /\ se > q4
        THEN [found |-> TRUE, start |-> p, end |-> tl.end,
              title |-> SubSeq(s, p, t - 1), section |-> SubSeq(s, q4, se - 1),
              heading |-> tl.heading, group0 |-> SubSeq(s, p, tl.end)]
        ELSE NoMatch

\* HEADER_CFR matched at position p:
\* ^(\d+)\s*CFR\s*§\s*([0-9]+\.[0-9\-]+)\s*(.*)$
MatchCFR(s, p) ==
    LET t == SkipSet(s, p, Digit)
        q1 == SkipSet(s, t, Space)
        q3 == SkipSet(s, q1 + 3, Space)
        q4 == SkipSet(s, q3 + 1, Space)
        d == SkipSet(s, q4, Digit)
        se == SkipSet(s, d + 1, Digit \cup {"-"})
        tl == HeaderTail(s, se)
    IN  IF /\ LineStart(s, p)
           /\ t > p
           /\ OccursAt(s, q1, <<"C", "F", "R">>)
           /\ q3 <= Len(s)
           /\ s[q3] = SEC
           /\ d > q4
           /\ d <= Len(s)
           /\ s[d] = "."
           /\ se > d + 1
        THEN [found |-> TRUE, start |-> p, end |-> tl.end,
              title |-> SubSeq(s, p, t - 1), section |-> SubSeq(s, q4, se - 1),
              heading |-> tl.heading, group0 |-> SubSeq(s, p, tl.end)]
        ELSE NoMatch

\* pattern.search(text) from position p on: the match at the leftmost
\* position that has one.
RECURSIVE SearchUSC(_, _)
SearchUSC(s, p) ==
    IF p > Len(s) THEN NoMatch
    ELSE With(MatchUSC(s, p), LAMBDA m :
             IF m.found THEN m ELSE SearchUSC(s, p + 1))

RECURSIVE SearchCFR(_, _)
SearchCFR(s, p) ==
    IF p > Len(s) THEN NoMatch
    ELSE With(MatchCFR(s, p), LAMBDA m :
             IF m.found THEN m ELSE SearchCFR(s, p + 1))

\* str.upper() of the source-type flag, over the spellings the inputs use.
UpperFlag(f) == IF f \in {"CFR", "cfr"} THEN "CFR"
                ELSE IF f \in {"USC", "usc"} THEN "USC" ELSE f

\* str.lower()
LowerFlag(f) == IF f \in {"CFR", "cfr"} THEN "cfr"
                ELSE IF f \in {"USC", "usc"} THEN "usc" ELSE f

\* int(title) followed by str(): the digits without their leading zeros.
IntStr(ds) ==
    LET nz == {k \in 1..Len(ds) : ds[k] # "0"}
    IN  IF nz = {} THEN <<"0">> ELSE SubSeq(ds, Min(nz), Len(ds))

\* ------------------------------------------------------------------------
\* Label grammar and node construction
\* ------------------------------------------------------------------------

LEVEL_ORDER == <<"section", "subsection", "paragraph", "subparagraph",
                 "clause", "subclause", "item", "subitem">>

\* LEVEL_ORDER.index(level)
LevelIndex(level) == CHOOSE i \in 1..Len(LEVEL_ORDER) : LEVEL_ORDER[i] = level

\* The patterns in the order detect_label tries them: ^\((class-run)\)\s,
\* the run of exactly [exact] characters, or of one or more when exact = 0.
LABEL_PATTERNS ==
    << [level |-> "item", class |-> Lower, exact |-> 2],
       [level |-> "subitem", class |-> Upper, exact |-> 2],
       [level |-> "clause", class |-> RomanLower, exact |-> 0],
       [level |-> "subclause", class |-> RomanUpper, exact |-> 0],
       [level |-> "paragraph", class |-> Digit, exact |-> 0],
       [level |-> "subparagraph", class |-> Upper, exact |-> 1],
       [level |-> "subsection", class |-> Lower, exact |-> 1] >>

\* re.match(pattern, line): the position of the ")" closing the label, or 0.
LabelClose(line, pat) ==
    LET e == SkipSet(line, 2, pat.class)
        c == IF pat.exact = 0 THEN e ELSE pat.exact + 2
    IN  IF /\ Len(line) >= c + 1
           /\ line[1] = "("
           /\ c > 2
           /\ c <= e
           /\ line[c] = ")"
           /\ line[c + 1] \in Space
        THEN c ELSE 0

\* (None, None, 0): an empty level and label stand for None, both falsy.
NoLabel == [level |-> "", label |-> <<>>, pos |-> 0]

\* detect_label(line) over the pattern list pats: the first pattern that
\* matches decides; pos is match.end(), the number of elements consumed.
DetectIn(line, pats) ==
    LET hits == {i \in 1..Len(pats) : LabelClose(line, pats[i]) > 0}
    IN  IF hits = {} THEN NoLabel
        ELSE LET i == Min(hits)
                 c == LabelClose(line, pats[i])
             IN  [level |-> pats[i].level, label |-> SubSeq(line, 2, c - 1),
                  pos |-> c + 1]

detect_label(line) == DetectIn(line, LABEL_PATTERNS)

\* str.isupper() of a heading's first character.
StartsUpper(s) == s # <<>> /\ s[1] \in Upper \cup (NounsAnyCase \ Nouns)

HeadingMaxLen == 80

\* heading_and_body(body): re.split(r"\.\s+", candidate, maxsplit=1)
heading_and_body(body) ==
    LET candidate == Strip(body)
        dots == {k \in 1..(Len(candidate) - 1) :
                    candidate[k] = "." /\ candidate[k + 1] \in Space}
    IN  IF candidate = <<>> THEN [heading |-> None, body |-> <<>>]
        ELSE IF dots = {} THEN [heading |-> None, body |-> candidate]
        ELSE LET k == Min(dots)
                 h == Strip(SubSeq(candidate, 1, k - 1))
                 r == SubSeq(candidate, SkipSet(candidate, k + 1, Space),
                             Len(candidate))
             IN  IF h # <<>> /\ CharLen(h) <= HeadingMaxLen /\ StartsUpper(h)
                 THEN [heading |-> h, body |-> Strip(r)]
                 ELSE [heading |-> None, body |-> candidate]

\* f"({label})"
Paren(label) == <<"(">> \o label \o <<")">>

\* str.strip("()")
StripParens(s) == StripSet(s, {"(", ")"})

\* make_node_id without the ancestors: the base id and the node's own label.
make_node_id_own_label(base_id, stack, label) == base_id \o Paren(label)

\* make_node_id(base_id, stack, label); stack is the sequence of the nodes
\* themselves, the section root first.
make_node_id(base_id, stack, label) ==
    base_id
    \o Concat([k \in 1..(Len(stack) - 1) |->
                  Paren(StripParens(stack[k + 1].label))])
    \o Paren(label)

\* new_node(base_id, stack, level, label, heading_text, body_text)
new_node(base_id, stack, level, label, heading_text, body_text) ==
    [id |-> make_node_id(base_id, stack, label),
     label |-> Paren(label),
     level |-> level,
     heading |-> heading_text,
     text |-> Strip(body_text),
     children |-> <<>>]

\* The section root both builders start from.
SectionNode(base_id, heading, text) ==
    [id |-> base_id, label |-> <<>>, level |-> "section",
     heading |-> heading, text |-> text, children |-> <<>>]

\* value.strip() or None
OrNone(s) == With(Strip(s), LAMBDA v : IF v = <<>> THEN None ELSE v)

\* ------------------------------------------------------------------------
\* State
\* ------------------------------------------------------------------------

VARIABLES
    input,              \* the arguments of parse
    pc,                 \* "call", "loop", "returned", "resolved",
                        \* "resolved again"
    frame,              \* the locals of parse while its line loop runs
    nodes,              \* the node objects; a node's children are indices
    document,           \* the document parse returned, resolve mutates
    needs_llm_assist,   \* ParseResult.needs_llm_assist
    original            \* the nodes as parse returned them

vars == <<input, pc, frame, nodes, document, needs_llm_assist, original>>

NoFrame == [base_id |-> None]

NoDocument == [id |-> None]

\* The document of the manual-assist returns (parse, parse_uslm): it has
\* no heading and no links key, written None here.
AssistDocument(source_type, citation_hint, title) ==
    [id |-> IF citation_hint = <<>> THEN <<"unknown">> ELSE citation_hint,
     type |-> LowerFlag(source_type),
     source |-> [work |-> UpperFlag(source_type), title |-> title,
                 section |-> <<>>],
     heading |-> None,
     nodes |-> <<>>,
     links |-> None]

\* The document both builders return around the section root, nodes[1].
BuiltDocument(base_id, doc_type, source, heading) ==
    [id |-> base_id, type |-> doc_type, source |-> source,
     heading |-> heading, nodes |-> <<1>>, links |-> <<>>]

\* ------------------------------------------------------------------------
\* parse, text mode
\* ------------------------------------------------------------------------

\* The header search of parse: HEADER_CFR when the flag is CFR, HEADER_USC
\* for every other flag.
HeaderMatch(text, source_type) ==
    IF UpperFlag(source_type) = "CFR" THEN SearchCFR(text, 1)
    ELSE SearchUSC(text, 1)

\* [ln for ln in text.split("\n") if ln.strip()]
NonBlank(ls) == SelectSeq(ls, LAMBDA ln : Strip(ln) # <<>>)

\* base_id, doc_type and source of a header match.
HeaderMeta(m, source_type) ==
    LET cfr == UpperFlag(source_type) = "CFR"
        prefix == IF cfr THEN "cfr" ELSE "usc"
    IN  [base_id |-> <<prefix, ":">> \o m.title \o <<":">> \o m.section,
         doc_type |-> IF cfr THEN "regulation" ELSE "statute",
         source |-> [work |-> IF cfr THEN "CFR" ELSE "USC",
                     title |-> IntStr(m.title), section |-> m.section],
         heading |-> OrNone(m.heading)]

\* No header of the selected grammar: the manual-assist return.
ParseNoHeader ==
    /\ pc = "call"
    /\ input.format = "text"
    /\ ~HeaderMatch(normalize(input.source_text), input.source_type).found
    /\ document' = AssistDocument(input.source_type, input.citation_hint,
                                  input.citation_hint)
    /\ needs_llm_assist' = TRUE
    /\ pc' = "returned"
    /\ original' = nodes
    /\ UNCHANGED <<input, frame, nodes>>

\* A header was found: the locals and the section root, up to the loop.
ParseHeader ==
    /\ pc = "call"
    /\ input.format = "text"
    /\ \E text \in {normalize(input.source_text)} :
       \E m \in {HeaderMatch(text, input.source_type)} :
           /\ m.found
           /\ \E meta \in {HeaderMeta(m, input.source_type)} :
                  /\ frame' = [base_id |-> meta.base_id,
                               doc_type |-> meta.doc_type,
                               source |-> meta.source,
                               heading |-> meta.heading,
                               lines |-> NonBlank(SplitLines(text)),
                               pos |-> 1,
                               stack |-> <<1>>,
                               header_line |-> m.group0]
                  /\ nodes' = <<SectionNode(meta.base_id, meta.heading, <<>>)>>
    /\ pc' = "loop"
    /\ UNCHANGED <<input, document, needs_llm_assist, original>>

\* The pop loop with > for >=: a node of the new label's level stays on.
RECURSIVE PopStackDeeperOnly(_, _, _)
PopStackDeeperOnly(ns, stack, level_idx) ==
    IF Len(stack) > 1 /\ LevelIndex(ns[stack[Len(stack)]].level) > level_idx
    THEN PopStackDeeperOnly(ns, SubSeq(stack, 1, Len(stack) - 1), level_idx)
    ELSE stack

\* while len(stack) > 1 and LEVEL_ORDER.index(stack[-1]["level"]) >= level_idx:
\*     stack.pop()
RECURSIVE PopStack(_, _, _)
PopStack(ns, stack, level_idx) ==
    IF Len(stack) > 1 /\ LevelIndex(ns[stack[Len(stack)]].level) >= level_idx
    THEN PopStack(ns, SubSeq(stack, 1, Len(stack) - 1), level_idx)
    ELSE stack

\* The labelled branch of the loop body: the nodes and the stack after it.
AddLabelled(ns, stack, base_id, line, d) ==
    With(PopStack(ns, stack, LevelIndex(d.level)), LAMBDA st :
    With(Strip(SubSeq(line, d.pos + 1, Len(line))), LAMBDA remainder :
    With(heading_and_body(remainder), LAMBDA hb :
    With(new_node(base_id, [k \in 1..Len(st) |-> ns[st[k]]],
                  d.level, d.label, hb.heading, hb.body), LAMBDA made :
        LET parent == st[Len(st)]
            i == Len(ns) + 1
        IN  [nodes |-> Append([ns EXCEPT ![parent].children = Append(@, i)],
                              IF made.text = <<>>
                              THEN [made EXCEPT !.text = remainder]
                              ELSE made),
             stack |-> Append(st, i)]))))

\* The unlabelled branch: the line joins the text of the node on top.
AddText(ns, stack, line) ==
    LET current == stack[Len(stack)]
        addition == Strip(line)
    IN  IF addition = <<>> THEN ns
        ELSE IF ns[current].text # <<>>
        THEN [ns EXCEPT ![current].text = @ \o <<" ">> \o addition]
        ELSE [ns EXCEPT ![current].text = addition]

\* One iteration of "for line in lines".
ParseLine ==
    /\ pc = "loop"
    /\ frame.pos <= Len(frame.lines)
    /\ \E line \in {frame.lines[frame.pos]} :
       \E d \in {detect_label(line)} :
           IF Strip(line) = Strip(frame.header_line)
           THEN /\ nodes' = nodes
                /\ frame' = [frame EXCEPT !.pos = @ + 1]
           ELSE IF d.level # "" /\ d.label # <<>>
           THEN \E r \in {AddLabelled(nodes, frame.stack, frame.base_id,
                                      line, d)} :
                    /\ nodes' = r.nodes
                    /\ frame' = [frame EXCEPT !.pos = @ + 1, !.stack = r.stack]
           ELSE /\ nodes' = AddText(nodes, frame.stack, line)
                /\ frame' = [frame EXCEPT !.pos = @ + 1]
    /\ UNCHANGED <<input, pc, document, needs_llm_assist, original>>

\* The loop is over: the document is assembled and returned.
ParseReturn ==
    /\ pc = "loop"
    /\ frame.pos > Len(frame.lines)
    /\ document' = BuiltDocument(frame.base_id, frame.doc_type, frame.source,
                                 frame.heading)
    /\ needs_llm_assist' = FALSE
    /\ pc' = "returned"
    /\ original' = nodes
    /\ UNCHANGED <<input, frame, nodes>>

\* ------------------------------------------------------------------------
\* resolve_links: tree walks
\* ------------------------------------------------------------------------

\* flatten_nodes(node): the indices of the subtree of i, in pre-order.
RECURSIVE flatten_nodes(_, _)
flatten_nodes(ns, i) ==
    <<i>> \o Concat([k \in 1..Len(ns[i].children) |->
                        flatten_nodes(ns, ns[i].children[k])])

\* The parent of node i (0 for the root), from the children lists.
Parent(ns, i) ==
    IF \E p \in 1..Len(ns) : i \in Range1(ns[p].children)
    THEN CHOOSE p \in 1..Len(ns) : i \in Range1(ns[p].children)
    ELSE 0

\* path + [n] of build_paths' walk: the indices from the root down to i.
RECURSIVE PathTo(_, _)
PathTo(ns, i) ==
    IF Parent(ns, i) = 0 THEN <<i>> ELSE Append(PathTo(ns, Parent(ns, i)), i)

\* Position of index i in the walk order.
WalkPos(flat, i) == CHOOSE k \in 1..Len(flat) : flat[k] = i

\* build_paths(node)[id]: the dictionary is keyed by id, so of several
\* nodes with one id the last one walked keeps the entry; [] when absent.
build_paths(ns, flat, id) ==
    LET same == {k \in 1..Len(flat) : ns[flat[k]].id = id}
    IN  IF same = {} THEN <<>> ELSE PathTo(ns, flat[Max(same)])

\* nearest_ancestor_of_level(path, level): an index, 0 for None.
nearest_ancestor_of_level(ns, path, level) ==
    LET hits == {k \in 1..Len(path) : ns[path[k]].level = level}
    IN  IF hits # {} THEN path[Max(hits)]
        ELSE IF path # <<>> THEN path[Len(path)] ELSE 0

\* ------------------------------------------------------------------------
\* resolve_links: patterns
\* ------------------------------------------------------------------------

\* str.lower() of a keyword element.
LowerEl(e) == IF e = "Paragraph" THEN "paragraph"
              ELSE IF e = "Subsection" THEN "subsection"
              ELSE IF e = "For purposes of" THEN "for purposes of" ELSE e

\* \b before position i, where a word element stands at i.
BoundaryBefore(s, i) == i = 1 \/ s[i - 1] \notin WordEl

\* \b after position i, where a word element stands at i.
BoundaryAfter(s, i) == i = Len(s) \/ s[i + 1] \notin WordEl

\* One group \([^)]+\) at position w: the position of its ")", or 0.
GroupClose(s, w) ==
    LET c == SkipSet(s, w + 1, Range1(s) \ {")"})
    IN  IF w <= Len(s) /\ s[w] = "(" /\ c > w + 1 /\ c <= Len(s)
        THEN c ELSE 0

\* (\([^)]+\))+ at position w: the ")" of the last group, or 0.
RECURSIVE GroupsClose(_, _)
GroupsClose(s, w) ==
    LET c == GroupClose(s, w)
    IN  IF c = 0 THEN 0
        ELSE IF GroupClose(s, c + 1) = 0 THEN c ELSE GroupsClose(s, c + 1)

\* re.findall(r"\(([^)]+)\)", paren) on a run of groups.
RECURSIVE GroupLabels(_)
GroupLabels(paren) ==
    LET c == GroupClose(paren, 1)
    IN  IF c = 0 THEN <<>>
        ELSE <<SubSeq(paren, 2, c - 1)>>
             \o GroupLabels(SubSeq(paren, c + 1, Len(paren)))

\* REL_REF at position i: [found, start, end, noun, paren].
\* \b(paragraph|subparagraph|clause|subclause|subsection)\s+((\([^)]+\))+)
MatchREL(s, i) ==
    LET w == SkipSet(s, i + 1, Space)
        e == GroupsClose(s, w)
    IN  IF /\ s[i] \in NounsAnyCase
           /\ BoundaryBefore(s, i)
           /\ w > i + 1
           /\ e > 0
        THEN [found |-> TRUE, start |-> i, end |-> e, kind |-> "relative",
              noun |-> LowerEl(s[i]), paren |-> SubSeq(s, w, e)]
        ELSE NoMatch

\* THIS_REF at position i:
\* \bthis\s+(paragraph|subparagraph|clause|subclause|subsection)\b
MatchTHIS(s, i) ==
    LET w == SkipSet(s, i + 1, Space)
    IN  IF /\ s[i] = "this"
           /\ BoundaryBefore(s, i)
           /\ w > i + 1
           /\ w <= Len(s)
           /\ s[w] \in NounsAnyCase
           /\ BoundaryAfter(s, w)
        THEN [found |-> TRUE, start |-> i, end |-> w, kind |-> "self",
              noun |-> LowerEl(s[w]), paren |-> <<>>]
        ELSE NoMatch

\* [0-9A-Za-z\.\-]: the keywords made of letters only belong to it whole.
AbsClass == AlnumHyphen \cup {"."} \cup NounsAnyCase
            \cup {"section", "this", "notwithstanding", "means", "and",
                  "expenses"}

\* ABS_REF at position i; noun holds group 1 and paren group 2 (or "").
\* \bsection\s+([0-9A-Za-z\.\-]+)(\([^)]+\))?
MatchABS(s, i) ==
    LET w == SkipSet(s, i + 1, Space)
        g == SkipSet(s, w, AbsClass)
        c == GroupClose(s, g)
        e == IF c = 0 THEN g - 1 ELSE c
    IN  IF /\ s[i] = "section"
           /\ BoundaryBefore(s, i)
           /\ w > i + 1
           /\ g > w
        THEN [found |-> TRUE, start |-> i, end |-> e, kind |-> "absolute",
              noun |-> SubSeq(s, w, g - 1), paren |-> SubSeq(s, g, e)]
        ELSE NoMatch

\* The pattern of each class of reference.
MatchAt(kind, s, p) ==
    IF kind = "relative" THEN MatchREL(s, p)
    ELSE IF kind = "self" THEN MatchTHIS(s, p)
    ELSE MatchABS(s, p)

\* pattern.finditer(text) from position i on: the matches left to right,
\* each search resuming after the end of the match before.
RECURSIVE FindIter(_, _, _)
FindIter(kind, s, i) ==
    IF i > Len(s) THEN <<>>
    ELSE With(MatchAt(kind, s, i), LAMBDA m :
             IF m.found THEN <<m>> \o FindIter(kind, s, m.end + 1)
             ELSE FindIter(kind, s, i + 1))

\* pattern.search(text) is not None
Search(kind, s) == FindIter(kind, s, 1) # <<>>

\* ------------------------------------------------------------------------
\* resolve_links: relation and target
\* ------------------------------------------------------------------------

RELATION_CUES ==
    << [relation |-> "for-purposes-of", phrase |-> "for purposes of"],
       [relation |-> "subject-to", phrase |-> "subject to"],
       [relation |-> "exception-to", phrase |-> "except as provided"],
       [relation |-> "notwithstanding", phrase |-> "notwithstanding"],
       [relation |-> "definition-of", phrase |-> "the term .+ means"] >>

\* re.search(pattern, text, re.IGNORECASE) for one cue.  The last cue is a
\* pattern: "the term", a space, one or more characters of one line, a
\* space, "means".
CueFound(cue, s) ==
    IF cue.phrase = "the term .+ means"
    THEN \E i, j \in 1..Len(s) :
            /\ s[i] = "the term"
            /\ s[j] = "means"
            /\ j - 2 >= i + 2
            /\ s[i + 1] = " "
            /\ s[j - 1] = " "
            /\ \A k \in (i + 2)..(j - 2) : s[k] # NL
    ELSE \E i \in 1..Len(s) : LowerEl(s[i]) = cue.phrase

\* detect_relation(text) over the cue list cues; "" stands for None.
RECURSIVE RelationIn(_, _)
RelationIn(s, cues) ==
    IF cues # <<>>
    THEN IF CueFound(Head(cues), s) THEN Head(cues).relation
         ELSE RelationIn(s, Tail(cues))
    ELSE IF Search("absolute", s) \/ Search("relative", s)
            \/ Search("self", s)
    THEN "see-also" ELSE ""

\* detect_relation with the cue list walked from its end.
detect_relation_last_cue(s) ==
    RelationIn(s, [k \in 1..Len(RELATION_CUES) |->
                      RELATION_CUES[Len(RELATION_CUES) + 1 - k]])

detect_relation(s) == RelationIn(s, RELATION_CUES)

\* str.isalpha() and str.islower() / str.isupper(), str.isdigit()
AlphaLower(v) == v # <<>> /\ \A k \in 1..Len(v) : v[k] \in Lower

AlphaUpper(v) == v # <<>> /\ \A k \in 1..Len(v) : v[k] \in Upper

AllDigits(v) == v # <<>> /\ \A k \in 1..Len(v) : v[k] \in Digit

\* EXPECTED_LABEL_PREDICATES[noun](value)
ExpectedLabel(noun, v) ==
    IF noun = "subsection" THEN AlphaLower(v)
    ELSE IF noun = "paragraph" THEN AllDigits(v)
    ELSE IF noun = "subparagraph" THEN AlphaUpper(v)
    ELSE IF noun = "clause"
    THEN v # <<>> /\ \A k \in 1..Len(v) : v[k] \in RomanLower \cup RomanUpper
    ELSE IF noun = "subclause"
    THEN v # <<>> /\ \A k \in 1..Len(v) : v[k] \in RomanUpper
    ELSE IF noun = "item" THEN AlphaLower(v) /\ Len(v) = 2
    ELSE AlphaUpper(v) /\ Len(v) = 2

\* build_target_id without the test for a base label repeated by the suffix.
build_target_id_keep_duplicate(base_id, base_path, suffix_labels, noun) ==
    LET withLabel == SelectSeq(base_path, LAMBDA n : n.label # <<>>)
        all == [k \in 1..Len(withLabel) |-> StripParens(withLabel[k].label)]
        labels == (IF suffix_labels # <<>>
                      /\ ~ExpectedLabel(noun, suffix_labels[1])
                   THEN <<>> ELSE all) \o suffix_labels
    IN  base_id \o Concat([k \in 1..Len(labels) |-> Paren(labels[k])])

\* build_target_id(base_id, base_path, suffix_labels, noun); base_path is
\* the sequence of the nodes themselves.
build_target_id(base_id, base_path, suffix_labels, noun) ==
    LET withLabel == SelectSeq(base_path, LAMBDA n : n.label # <<>>)
        all == [k \in 1..Len(withLabel) |-> StripParens(withLabel[k].label)]
        checked == IF suffix_labels # <<>>
                      /\ ~ExpectedLabel(noun, suffix_labels[1])
                   THEN <<>> ELSE all
        base_labels == IF checked # <<>> /\ suffix_labels # <<>>
                          /\ suffix_labels[1] = checked[Len(checked)]
                       THEN SubSeq(checked, 1, Len(checked) - 1) ELSE checked
        labels == base_labels \o suffix_labels
    IN  base_id \o Concat([k \in 1..Len(labels) |-> Paren(labels[k])])

\* The target of an absolute reference: ":".join(target_parts).
AbsTarget(source, m) ==
    LET prefix == IF source.work = "CFR" THEN "cfr" ELSE "usc"
        title == Strip(source.title)
    IN  <<prefix, ":">>
        \o (IF title # <<>> THEN title \o <<":">> ELSE <<>>)
        \o m.noun \o m.paren

\* The node a relative or self reference of node i starts from.
RefAncestor(ns, flat, i, noun) ==
    nearest_ancestor_of_level(ns, build_paths(ns, flat, ns[i].id), noun)

\* The target of a relative reference found in node i.
RelTarget(ns, flat, base_id, i, m) ==
    LET ancestor == RefAncestor(ns, flat, i, m.noun)
        ancestor_path == IF ancestor = 0 THEN <<>>
                         ELSE build_paths(ns, flat, ns[ancestor].id)
        base_path == IF ancestor_path = <<>> THEN <<>>
                     ELSE SubSeq(ancestor_path, 1, Len(ancestor_path) - 1)
    IN  build_target_id(base_id,
                        [k \in 1..Len(base_path) |-> ns[base_path[k]]],
                        GroupLabels(m.paren), m.noun)

\* The target of a self reference found in node i.
SelfTarget(ns, flat, i, m) == ns[RefAncestor(ns, flat, i, m.noun)].id

\* ------------------------------------------------------------------------
\* resolve
\* ------------------------------------------------------------------------

\* The matches of one node's text in the order resolve collects them:
\* relative, then self, then absolute, each class left to right.
AllMatches(s) ==
    FindIter("relative", s, 1) \o FindIter("self", s, 1)
    \o FindIter("absolute", s, 1)

\* The target id resolve computes for match m of node i.
TargetOf(ns, flat, doc, i, m) ==
    IF m.kind = "relative" THEN RelTarget(ns, flat, doc.id, i, m)
    ELSE IF m.kind = "self" THEN SelfTarget(ns, flat, i, m)
    ELSE AbsTarget(doc.source, m)

\* relation = detect_relation(text) or "see-also"
NodeRelation(s) ==
    With(detect_relation(s), LAMBDA r : IF r = "" THEN "see-also" ELSE r)

\* add_link(...) for match m of node i.
LinkOf(ns, flat, doc, i, m) ==
    [source |-> ns[i].id,
     target |-> TargetOf(ns, flat, doc, i, m),
     relation |-> NodeRelation(ns[i].text),
     scope |-> IF m.kind = "absolute" THEN "inter-section"
               ELSE "intra-section",
     ref_text |-> SubSeq(ns[i].text, m.start, m.end),
     confidence |-> IF m.kind = "self" THEN "0.9" ELSE "0.95"]

\* f" [[{target_id}]]"
Pointer(target) == <<" ", "[", "[">> \o target \o <<"]", "]">>

\* The (start, end, replacement) entry of match m; start and end are the
\* first and last position of the match.
ReplacementOf(ns, flat, doc, i, m) ==
    [start |-> m.start, end |-> m.end,
     text |-> SubSeq(ns[i].text, m.start, m.end)
              \o Pointer(TargetOf(ns, flat, doc, i, m))]

\* The links of node i, none for a node without text.
NodeLinks(ns, flat, doc, i) ==
    IF ns[i].text = <<>> THEN <<>>
    ELSE With(AllMatches(ns[i].text), LAMBDA ms :
             [k \in 1..Len(ms) |-> LinkOf(ns, flat, doc, i, ms[k])])

\* sorted(replacements, key=lambda x: x[0], reverse=True): the indices of
\* reps by descending start; the sort is stable, so entries with one start
\* keep their order.
RECURSIVE SortedDesc(_, _)
SortedDesc(reps, left) ==
    IF left = {} THEN <<>>
    ELSE LET top == {k \in left : \A j \in left : reps[j].start <= reps[k].start}
             k == Min(top)
         IN  <<k>> \o SortedDesc(reps, left \ {k})

\* new_text = new_text[:start] + replacement + new_text[end:], for each
\* entry of order in turn.
RECURSIVE ApplyAll(_, _, _)
ApplyAll(text, reps, order) ==
    IF order = <<>> THEN text
    ELSE LET r == reps[Head(order)]
             after == IF r.end >= Len(text) THEN <<>>
                      ELSE SubSeq(text, r.end + 1, Len(text))
         IN  ApplyAll(SubSeq(text, 1, r.start - 1) \o r.text \o after,
                      reps, Tail(order))

\* Lines 171-175: the text of a node after its replacements.
Rewrite(text, reps) ==
    IF reps = <<>> THEN text
    ELSE ApplyAll(text, reps, SortedDesc(reps, 1..Len(reps)))

\* The loop's result written as a fresh node that carries no heading.
ResolvedNodeNoHeading(ns, flat, doc, i) ==
    [id |-> ns[i].id, label |-> ns[i].label, level |-> ns[i].level,
     heading |-> None,
     text |-> Rewrite(ns[i].text,
                      [k \in 1..Len(AllMatches(ns[i].text)) |->
                          ReplacementOf(ns, flat, doc, i,
                                        AllMatches(ns[i].text)[k])]),
     children |-> ns[i].children]

\* Node i as the loop over flat_nodes leaves it.
ResolvedNode(ns, flat, doc, i) ==
    IF ns[i].text = <<>> THEN ns[i]
    ELSE With(AllMatches(ns[i].text), LAMBDA ms :
             [ns[i] EXCEPT !.text =
                 Rewrite(@, [k \in 1..Len(ms) |->
                                ReplacementOf(ns, flat, doc, i, ms[k])])])

\* The document as resolve returns it.
ResolvedDocument(ns, doc) ==
    IF doc.nodes = <<>>
    THEN [doc EXCEPT !.links = IF @ = None THEN <<>> ELSE @]
    ELSE LET flat == flatten_nodes(ns, doc.nodes[1])
         IN  [doc EXCEPT !.links =
                 Concat([k \in 1..Len(flat) |->
                            NodeLinks(ns, flat, doc, flat[k])])]

\* resolve(json_doc)
Resolve ==
    /\ pc = "returned"
    /\ document' = ResolvedDocument(nodes, document)
    /\ nodes' = IF document.nodes = <<>> THEN nodes
                ELSE LET flat == flatten_nodes(nodes, document.nodes[1])
                     IN  [i \in 1..Len(nodes) |->
                             IF i \in Range1(flat)
                             THEN ResolvedNode(nodes, flat, document, i)
                             ELSE nodes[i]]
    /\ pc' = "resolved"
    /\ UNCHANGED <<input, frame, needs_llm_assist, original>>

\* resolve(json_doc) called again, on the document it has annotated.
ResolveAgain ==
    /\ pc = "resolved"
    /\ document' = ResolvedDocument(nodes, document)
    /\ nodes' = IF document.nodes = <<>> THEN nodes
                ELSE LET flat == flatten_nodes(nodes, document.nodes[1])
                     IN  [i \in 1..Len(nodes) |->
                             IF i \in Range1(flat)
                             THEN ResolvedNode(nodes, flat, document, i)
                             ELSE nodes[i]]
    /\ pc' = "resolved again"
    /\ UNCHANGED <<input, frame, needs_llm_assist, original>>

\* ------------------------------------------------------------------------
\* parse, markup mode
\* ------------------------------------------------------------------------

\* str.split(":")
RECURSIVE SplitColon(_)
SplitColon(s) ==
    LET e == SkipSet(s, 1, Range1(s) \ {":"})
    IN  IF e > Len(s) THEN <<s>>
        ELSE <<SubSeq(s, 1, e - 1)>> \o SplitColon(SubSeq(s, e + 1, Len(s)))

\* ":".join(parts)
RECURSIVE JoinColon(_)
JoinColon(parts) ==
    IF Len(parts) = 1 THEN parts[1]
    ELSE parts[1] \o <<":">> \o JoinColon(Tail(parts))

\* metadata_from_hint(citation_hint, source_type): its four results.  A
\* compact hint writes its prefix as one element, "usc", "USC", "cfr" or
\* "CFR".
metadata_from_hint(citation_hint, source_type) ==
    With(Strip(citation_hint), LAMBDA hint :
    With(SplitColon(hint), LAMBDA colon_parts :
    With(IF UpperFlag(source_type) = "CFR" THEN SearchCFR(hint, 1)
         ELSE NoMatch, LAMBDA match_cfr :
    With(SearchUSC(hint, 1), LAMBDA match_usc :
        LET prefix == LowerFlag(colon_parts[1][1])
            title_part == colon_parts[2]
            section_part == JoinColon(SubSeq(colon_parts, 3, Len(colon_parts)))
            fall == IF UpperFlag(source_type) = "USC" THEN "usc" ELSE "cfr"
        IN  IF /\ hint # <<>>
               /\ Len(colon_parts) >= 3
               /\ Len(colon_parts[1]) = 1
               /\ prefix \in {"usc", "cfr"}
            THEN [base_id |-> <<prefix, ":">> \o title_part \o <<":">>
                              \o section_part,
                  doc_type |-> IF prefix = "usc" THEN "statute"
                               ELSE "regulation",
                  source |-> [work |-> UpperFlag(prefix),
                              title |-> IF AllDigits(title_part)
                                        THEN IntStr(title_part)
                                        ELSE title_part,
                              section |-> section_part],
                  heading |-> None]
            ELSE IF match_cfr.found THEN HeaderMeta(match_cfr, "CFR")
            ELSE IF match_usc.found THEN HeaderMeta(match_usc, "USC")
            ELSE [base_id |-> <<fall, ":">>
                              \o (IF hint = <<>> THEN <<"unknown">> ELSE hint),
                  doc_type |-> IF fall = "usc" THEN "statute"
                               ELSE "regulation",
                  source |-> [work |-> UpperFlag(fall), title |-> hint,
                              section |-> hint],
                  heading |-> None]))))

\* The keys of USLM_LEVEL_MAP, which maps each to itself.
USLM_LEVELS == {"subsection", "paragraph", "subparagraph", "clause",
                "subclause", "item", "subitem"}

\* A markup input is a sequence E of elements [name, text, tail, kids]:
\* the local name, the text before the first child, the text after the end
\* tag, and the indices of the children in document order.  All elements
\* are in the uslm namespace.

\* element.find("uslm:<name>"): the first child of that name, 0 for None.
FindChild(E, e, name) ==
    LET hits == {k \in 1..Len(E[e].kids) : E[E[e].kids[k]].name = name}
    IN  IF hits = {} THEN 0 ELSE E[e].kids[Min(hits)]

\* element.findtext("uslm:<name>", default): the child's text, "" for a
\* child without text.
FindText(E, e, name, default) ==
    With(FindChild(E, e, name), LAMBDA c :
        IF c = 0 THEN default ELSE E[c].text)

\* " ".join(parts)
RECURSIVE JoinSpace(_)
JoinSpace(parts) ==
    IF parts = <<>> THEN <<>>
    ELSE IF Len(parts) = 1 THEN parts[1]
    ELSE parts[1] \o <<" ">> \o JoinSpace(Tail(parts))

\* The stripped text as a one-entry list, nothing for a blank text.
Part(s) == With(Strip(s), LAMBDA v : IF v = <<>> THEN <<>> ELSE <<v>>)

\* extract_direct_text(element); e = 0 is None.
RECURSIVE extract_direct_text(_, _)
extract_direct_text(E, e) ==
    IF e = 0 THEN <<>>
    ELSE LET child(k) == E[e].kids[k]
             of(k) == IF E[child(k)].name \in USLM_LEVELS
                      THEN Part(E[child(k)].tail)
                      ELSE Part(extract_direct_text(E, child(k)))
                           \o Part(E[child(k)].tail)
             parts == Part(E[e].text)
                      \o Concat([k \in 1..Len(E[e].kids) |-> of(k)])
         IN  IF parts = <<>> THEN <<>> ELSE normalize(JoinSpace(parts))

\* label_value of build_uslm_node, from the text of the num child.
LabelValue(raw) ==
    LET stripped == RStripSet(Strip(raw), {"."})
        wrapped == IF stripped # <<>> /\ stripped[1] # "("
                   THEN Paren(stripped) ELSE stripped
    IN  StripParens(wrapped)

\* heading_text of build_uslm_node and parse_uslm.
HeadingText(E, e) ==
    With(FindChild(E, e, "heading"), LAMBDA h :
        IF h = 0 THEN None ELSE OrNone(E[h].text))

\* build_uslm_node(element, base_id, stack) with the node objects ns built
\* so far: [ok, ns, index], ok = FALSE for a None result.  BuildKids is
\* the loop over the children, appending each built node to node parent.
RECURSIVE build_uslm_node(_, _, _, _, _)
RECURSIVE BuildKids(_, _, _, _, _, _, _)
build_uslm_node(E, e, base_id, stack, ns) ==
    LET level == IF E[e].name \in USLM_LEVELS THEN E[e].name ELSE ""
        label_value == LabelValue(FindText(E, e, "num", <<>>))
        content == FindChild(E, e, "content")
        node == new_node(base_id, stack, level, label_value,
                         HeadingText(E, e), extract_direct_text(E, content))
        children_parent == IF content # 0 THEN content ELSE e
        i == Len(ns) + 1
    IN  IF level = "" \/ label_value = <<>>
        THEN [ok |-> FALSE, ns |-> ns, index |-> 0]
        ELSE [ok |-> TRUE,
              ns |-> BuildKids(E, E[children_parent].kids, 1, base_id,
                               Append(stack, node), Append(ns, node), i),
              index |-> i]

BuildKids(E, kids, k, base_id, stack, ns, parent) ==
    IF k > Len(kids) THEN ns
    ELSE With(build_uslm_node(E, kids[k], base_id, stack, ns),
              LAMBDA built :
                  IF E[kids[k]].name \in USLM_LEVELS /\ built.ok
                  THEN BuildKids(E, kids, k + 1, base_id, stack,
                                 [built.ns EXCEPT ![parent].children =
                                     Append(@, built.index)],
                                 parent)
                  ELSE BuildKids(E, kids, k + 1, base_id, stack, ns, parent))

\* root.find(".//uslm:section"): the first section below the root in
\* document order (elements are numbered in document order), 0 for None.
FindSection(E) ==
    LET hits == {e \in 2..Len(E) : E[e].name = "section"}
    IN  IF hits = {} THEN 0 ELSE Min(hits)

\* The section element parse_uslm builds from, 0 when there is none.
SectionElement(markup) ==
    IF ~markup.wellformed THEN 0
    ELSE IF markup.elems[1].name = "section" THEN 1
    ELSE FindSection(markup.elems)

\* heading_text of parse_uslm: the section's own heading, else the hint's.
SectionHeading(E, section, heading_hint) ==
    With(HeadingText(E, section), LAMBDA h :
        IF h = None THEN heading_hint ELSE h)

\* The loop of parse_uslm over the children of the section's content.
SectionChildren(E, content, base_id, section_node) ==
    IF content = 0 THEN <<section_node>>
    ELSE BuildKids(E, E[content].kids, 1, base_id, <<section_node>>,
                   <<section_node>>, 1)

\* parse_uslm: malformed markup or no section element.
ParseUslmAssist ==
    /\ pc = "call"
    /\ input.format = "uslm"
    /\ SectionElement(input.markup) = 0
    /\ document' = AssistDocument(input.source_type, input.citation_hint, <<>>)
    /\ needs_llm_assist' = TRUE
    /\ pc' = "returned"
    /\ original' = nodes
    /\ UNCHANGED <<input, frame, nodes>>

\* parse_uslm from the metadata on.
ParseUslm ==
    /\ pc = "call"
    /\ input.format = "uslm"
    /\ SectionElement(input.markup) # 0
    /\ \E meta \in {metadata_from_hint(input.citation_hint,
                                         input.source_type)} :
       \E section \in {SectionElement(input.markup)} :
       \E heading_text \in {SectionHeading(input.markup.elems, section,
                                            meta.heading)} :
       \E content \in {FindChild(input.markup.elems, section, "content")} :
       \E section_node \in {SectionNode(meta.base_id, heading_text,
                               extract_direct_text(input.markup.elems,
                                                   content))} :
           /\ nodes' = SectionChildren(input.markup.elems, content,
                                       meta.base_id, section_node)
           /\ original' = nodes'
           /\ document' = BuiltDocument(meta.base_id, meta.doc_type,
                                        meta.source, heading_text)
    /\ needs_llm_assist' = FALSE
    /\ pc' = "returned"
    /\ UNCHANGED <<input, frame>>

\* ------------------------------------------------------------------------
\* Inputs
\* ------------------------------------------------------------------------

\* Bounds of the input families.
MaxLines == 3
MaxDepth == 3

\* "\n".join(lines)
RECURSIVE JoinLines(_)
JoinLines(ls) ==
    IF ls = <<>> THEN <<>>
    ELSE IF Len(ls) = 1 THEN ls[1]
    ELSE ls[1] \o <<NL>> \o JoinLines(Tail(ls))

\* All sequences over S of length at most n.
RECURSIVE SeqsUpTo(_, _)
SeqsUpTo(S, n) ==
    IF n = 0 THEN {<<>>}
    ELSE LET shorter == SeqsUpTo(S, n - 1)
         IN  shorter \cup {Append(q, x) : q \in shorter, x \in S}

NoMarkup == [wellformed |-> FALSE, elems |-> <<>>]

TextInput(text, source_type) ==
    [format |-> "text", source_text |-> text, source_type |-> source_type,
     citation_hint |-> <<>>, markup |-> NoMarkup]

\* "26 U.S.C. § 162 Trade."
UscHeader == <<"2", "6", " ", "U", ".", "S", ".", "C", ".", " ", SEC, " ",
               "1", "6", "2", " ", "T", "r", "a", "d", "e", ".">>

\* Labels of every class of the grammar, and lines that carry them.
BodyLabels == {<<"a">>, <<"b">>, <<"c">>, <<"1">>, <<"A">>, <<"i">>,
               <<"i", "v">>, <<"a", "a">>}

BodyLines ==
    {Paren(l) \o <<" ", "x">> : l \in BodyLabels}
    \cup {<<"x">>, <<"(", "a", ")", "x">>}

\* Family 1: a header line and up to MaxLines body lines.
TreeInputs ==
    {TextInput(JoinLines(<<UscHeader>> \o ls), "USC") :
        ls \in SeqsUpTo(BodyLines, MaxLines)}

\* Family 2: texts around a header, each piece present, absent or broken
\* over a line, under each spelling of the source-type flag.
HeaderTexts ==
    {pre \o title \o s1 \o work \o <<" ">> \o sign \o s3 \o section \o tail :
        pre \in {<<>>, <<"x", NL>>},
        title \in {<<"0", "7">>, <<>>},
        s1 \in {<<" ">>, <<NL>>},
        work \in {<<>>, <<"U", ".", "S", ".", "C", ".">>, <<"C", "F", "R">>},
        sign \in {<<SEC>>, <<>>},
        s3 \in {<<" ">>, <<NL>>},
        section \in {<<"1">>, <<"1", ".", "2">>},
        tail \in {<<>>, <<" ", TAB, NBSP, "H", NL, "x">>,
                  <<NL, "(", "a", ")", " ", "x">>}}

HeaderInputs ==
    {TextInput(t, f) : t \in HeaderTexts, f \in {"USC", "CFR", "cfr"}}

\* Family 3: a chain (a), (1), (A), (i) of at most MaxDepth nested lines,
\* each with a body that holds references.
RefBodies ==
    { <<"x">>,
      <<"this", " ", "paragraph">>,
      <<"notwithstanding", " ", "subject to", " ", "section", " ", "2", "7",
        "4">>,
      <<"For purposes of", " ", "subsection", " ", "(", "b", ")">>,
      <<"paragraph", " ", "(", "2", ")", "(", "B", ")">>,
      <<"paragraph", " ", "(", "x", ")">>,
      <<"this", " ", "subsection", " ", "(", "b", ")">>,
      <<"the term", " ", "x", " ", "means", " ", "this", " ", "clause", " ",
        "and", " ", "Paragraph", " ", "(", "1", ")">>,
      <<"except as provided", " ", "the term", " ", "means", " ",
        "subparagraph", " ", "(", "A", ")">> }

ChainLabels == <<<<"a">>, <<"1">>, <<"A">>, <<"i">>, <<"I">>, <<"a", "a">>,
                 <<"A", "A">>>>

RefInputs ==
    {TextInput(JoinLines(<<UscHeader>>
                         \o [k \in 1..Len(bs) |->
                                Paren(ChainLabels[k]) \o <<" ">> \o bs[k]]),
               "USC") :
        bs \in SeqsUpTo(RefBodies, MaxDepth)}

\* Family 4: markup.  A section with a subsection element A that holds an
\* element B, and an inline element; A keeps its children in a content
\* element or, with contentA = FALSE, directly.
El(name, text, tail, kids) ==
    [name |-> name, text |-> text, tail |-> tail, kids |-> kids]

MarkupTree(numA, numB, nameB, textB, contentA) ==
    << El("section", <<>>, <<>>, <<2, 3, 4>>),
       El("num", <<"1", "6", "2", ".">>, <<>>, <<>>),
       El("heading", <<" ", "T">>, <<>>, <<>>),
       El("content", <<"x", " ">>, <<>>, <<5, 12>>),
       El("subsection", <<>>, <<" ", "y">>,
          IF contentA THEN <<6, 7, 8>> ELSE <<6, 7, 8, 9>>),
       El("num", numA, <<>>, <<>>),
       El("heading", <<>>, <<>>, <<>>),
       El(IF contentA THEN "content" ELSE "note", <<"z">>, <<>>,
          IF contentA THEN <<9>> ELSE <<>>),
       El(nameB, <<>>, <<"w">>, <<10, 11>>),
       El("num", numB, <<>>, <<>>),
       El("content", textB, <<>>, <<>>),
       El("p", <<"v">>, <<" ">>, <<>>) >>

\* The same elements below a wrapper element.
Wrapped(E) ==
    <<El("doc", <<>>, <<>>, <<2>>)>>
    \o [e \in 1..Len(E) |->
           [E[e] EXCEPT !.kids = [k \in 1..Len(@) |-> @[k] + 1]]]

MarkupInput(E, wellformed, source_type, hint) ==
    [format |-> "uslm", source_text |-> <<>>, source_type |-> source_type,
     citation_hint |-> hint,
     markup |-> [wellformed |-> wellformed, elems |-> E]]

Nums == {<<"(", "a", ")">>, <<"1", ".">>, <<" ", "(", "(", "2", ")", " ">>,
         <<"(", ")">>, <<>>}

MarkupTexts == {<<"x">>, <<"paragraph", " ", "(", "1", ")">>,
                <<"paragraph", " ", "(", "3", ")", NL, "this", " ",
                  "clause">>}

CompactHint == <<"USC", ":", "0", "2", "6", ":", "1", "6", "2">>

Hints == {<<>>, CompactHint, <<"x">>,
          <<"2", "6", " ", SEC, " ", "1", "6", "2", " ", "H">>,
          <<"2", "6", " ", "C", "F", "R", " ", SEC, " ", "1", ".", "1">>}

SampleTree == MarkupTree(<<"(", "a", ")">>, <<"1", ".">>, "paragraph",
                         <<"x">>, TRUE)

MarkupInputs ==
    {MarkupInput(MarkupTree(numA, numB, nameB, textB, contentA), TRUE, "USC",
                 CompactHint) :
        numA \in Nums, numB \in Nums,
        nameB \in {"paragraph", "subsection", "p"},
        textB \in MarkupTexts, contentA \in BOOLEAN}
    \cup {MarkupInput(E, TRUE, f, h) :
            E \in {SampleTree, Wrapped(SampleTree),
                   <<El("doc", <<"x">>, <<>>, <<>>)>>},
            f \in {"USC", "CFR"}, h \in Hints}
    \cup {MarkupInput(<<>>, FALSE, "USC", <<"x">>)}

Init ==
    /\ \/ input \in TreeInputs
       \/ input \in HeaderInputs
       \/ input \in RefInputs
       \/ input \in MarkupInputs
    /\ pc = "call"
    /\ frame = NoFrame
    /\ nodes = <<>>
    /\ document = NoDocument
    /\ needs_llm_assist = FALSE
    /\ original = <<>>

Next ==
    \/ ParseNoHeader
    \/ ParseHeader
    \/ ParseLine
    \/ ParseReturn
    \/ ParseUslmAssist
    \/ ParseUslm
    \/ Resolve
    \/ ResolveAgain

Spec == Init /\ [][Next]_vars

\* ------------------------------------------------------------------------
\* Properties
\* ------------------------------------------------------------------------

\* The base id of the document under construction or returned.
BaseId == IF pc = "loop" THEN frame.base_id ELSE document.id

\* The labels, as stored, of the nodes on the path to i, root excluded.
LabelsOnPath(ns, i) ==
    Concat([k \in 1..(Len(PathTo(ns, i)) - 1) |->
               ns[PathTo(ns, i)[k + 1]].label])

\* C1: in every tree of either builder the root's id is the base id and
\* every other node's id is the base id followed by the parenthesized
\* labels of its ancestors, root excluded and outermost first, and then its
\* own; while the line loop runs, the stack is the path from the root to
\* the node on its top.
C1_IdsFollowAncestors ==
    nodes # <<>> =>
        /\ nodes[1].id = BaseId
        /\ \A i \in 2..Len(nodes) :
               nodes[i].id = BaseId \o LabelsOnPath(nodes, i)
        /\ pc = "loop" =>
               frame.stack = PathTo(nodes, frame.stack[Len(frame.stack)])

\* A text tree is returned with a node two levels below the root and a
\* later node attached to the root again.
C1_Witness ==
    /\ pc = "returned"
    /\ input.format = "text"
    /\ Len(nodes) = 4
    /\ Len(PathTo(nodes, 3)) = 3
    /\ Len(PathTo(nodes, 4)) = 2

\* C2: in a tree of the text builder every child's level is strictly
\* deeper in LEVEL_ORDER than its parent's; while the loop runs the stack
\* has the section root at the bottom and strictly deepening levels above.
C2_ChildrenDeeper ==
    (input.format = "text" /\ nodes # <<>>) =>
        /\ \A p \in 1..Len(nodes) : \A k \in 1..Len(nodes[p].children) :
               LevelIndex(nodes[nodes[p].children[k]].level)
                   > LevelIndex(nodes[p].level)
        /\ pc = "loop" =>
               /\ frame.stack[1] = 1
               /\ nodes[1].level = "section"
               /\ \A k \in 1..(Len(frame.stack) - 1) :
                      LevelIndex(nodes[frame.stack[k]].level)
                          < LevelIndex(nodes[frame.stack[k + 1]].level)

\* The loop has popped a node off a stack of three and pushed its sibling.
C2_Witness ==
    /\ pc = "loop"
    /\ Len(frame.stack) = 3
    /\ Len(nodes) = 4
    /\ nodes[3].level = nodes[4].level

\* Whether some line of the text is, on its own, a header of the grammar
\* the flag selects.
HasHeaderLine(text, source_type) ==
    \E k \in 1..Len(SplitLines(text)) :
        HeaderMatch(SplitLines(text)[k], source_type).found

\* C3: in text mode parse signals manual assistance exactly when no line of
\* the normalized text is a header of the selected grammar, and then the
\* document has no nodes; otherwise the flag is false and the document
\* holds one root node of level section.
C3_AssistIffNoHeaderLine ==
    (input.format = "text" /\ pc \in {"returned", "resolved"}) =>
        /\ needs_llm_assist
               <=> ~HasHeaderLine(normalize(input.source_text),
                                  input.source_type)
        /\ needs_llm_assist => document.nodes = <<>>
        /\ ~needs_llm_assist =>
               (document.nodes = <<1>> /\ nodes[1].level = "section")

\* C4: in a tree of the text builder every node whose label is a single
\* lowercase letter has level subsection and is a child of the section
\* root.
C4_LetterIsSubsection ==
    (input.format = "text" /\ nodes # <<>>) =>
        \A i \in 2..Len(nodes) :
            (Len(nodes[i].label) = 3 /\ nodes[i].label[2] \in Lower) =>
                /\ nodes[i].level = "subsection"
                /\ i \in Range1(nodes[1].children)

\* C5: in a tree of the text builder every node whose label is made of
\* lowercase roman-numeral characters only has level clause.
C5_RomanIsClause ==
    (input.format = "text" /\ nodes # <<>>) =>
        \A i \in 2..Len(nodes) :
            (\A k \in 2..(Len(nodes[i].label) - 1) :
                 nodes[i].label[k] \in RomanLower)
                => nodes[i].level = "clause"

\* The nodes the resolver walks: the subtree of the root.
Walked == IF document.nodes = <<>> THEN {}
          ELSE Range1(flatten_nodes(original, document.nodes[1]))

\* The positions, on the path from the root to node i, of the nodes of
\* level noun.
OfLevelOnPath(i, noun) ==
    {k \in 1..Len(PathTo(original, i)) :
        original[PathTo(original, i)[k]].level = noun}

\* The bare labels of the proper ancestors, root excluded and outermost
\* first, of the node at position a of the path to node i.
AncestorLabels(i, a) ==
    [k \in 1..(a - 2) |-> StripParens(original[PathTo(original, i)[k + 1]].label)]

\* The target C6 states for the relative reference m of node i: A is the
\* nearest node of the referenced level on the path.
C6_Target(i, m) ==
    LET anc == AncestorLabels(i, Max(OfLevelOnPath(i, m.noun)))
        suffix == GroupLabels(m.paren)
        kept == IF anc # <<>> /\ anc[Len(anc)] = suffix[1]
                THEN SubSeq(anc, 1, Len(anc) - 1) ELSE anc
        labels == IF ExpectedLabel(m.noun, suffix[1]) THEN kept \o suffix
                  ELSE suffix
    IN  document.id \o Concat([k \in 1..Len(labels) |-> Paren(labels[k])])

\* The relative references of node i that have a node of their level on
\* the path from i to the root.
C6_References(i) ==
    {m \in Range1(FindIter("relative", original[i].text, 1)) :
        OfLevelOnPath(i, m.noun) # {}}

\* C6: a relative reference in node n whose level some node A on the path
\* from n to the root has (the nearest taken) yields a link of scope
\* intra-section and confidence 0.95 whose target is the base id, the
\* labels of A's proper ancestors (the last dropped when it equals the first
\* suffix label) when that label is of the level's character class, and the
\* suffix labels.
C6_RelativeTarget ==
    pc = "resolved" =>
        \A i \in Walked : \A m \in C6_References(i) :
            /\ \E k \in 1..Len(document.links) :
                   document.links[k] =
                       [source |-> original[i].id,
                        target |-> C6_Target(i, m),
                        relation |-> document.links[k].relation,
                        scope |-> "intra-section",
                        ref_text |-> SubSeq(original[i].text, m.start, m.end),
                        confidence |-> "0.95"]
            /\ \A k \in 1..Len(document.links) :
                   (/\ document.links[k].source = original[i].id
                    /\ document.links[k].ref_text
                           = SubSeq(original[i].text, m.start, m.end)
                    /\ document.links[k].confidence = "0.95")
                       => document.links[k].target = C6_Target(i, m)

\* A resolved document with a reference whose first suffix label is of its
\* level's class and repeats the label of A's parent.
C6_Witness ==
    /\ pc = "resolved"
    /\ \E i \in Walked : \E m \in C6_References(i) :
           LET anc == AncestorLabels(i, Max(OfLevelOnPath(i, m.noun)))
           IN  /\ anc # <<>>
               /\ anc[Len(anc)] = GroupLabels(m.paren)[1]
               /\ ExpectedLabel(m.noun, anc[Len(anc)])

\* The id of the nearest node of level noun on the path from node i to the
\* root, and of the root when the path has none.
C7_Target(i, noun) ==
    IF OfLevelOnPath(i, noun) # {}
    THEN original[PathTo(original, i)[Max(OfLevelOnPath(i, noun))]].id
    ELSE original[document.nodes[1]].id

\* C7: a self reference in node n yields a link of confidence 0.9 and scope
\* intra-section whose target is the id of the nearest node of the named
\* level on the path from n to the root, or of the root when there is none.
C7_SelfTarget ==
    pc = "resolved" =>
        \A i \in Walked :
            \A m \in Range1(FindIter("self", original[i].text, 1)) :
                \E k \in 1..Len(document.links) :
                    document.links[k] =
                        [source |-> original[i].id,
                         target |-> C7_Target(i, m.noun),
                         relation |-> document.links[k].relation,
                         scope |-> "intra-section",
                         ref_text |-> SubSeq(original[i].text, m.start, m.end),
                         confidence |-> "0.9"]

\* C8: a step of resolve changes of a document only its links and of a node
\* only its text: the number of nodes, every node's id, label, level,
\* heading and children, and the document's id, type, source, heading and
\* root list stay, and a node whose text holds no reference keeps its text.
C8_ResolveKeepsStructure ==
    [][pc' = "resolved" =>
        /\ Len(nodes') = Len(nodes)
        /\ \A i \in 1..Len(nodes) :
               /\ nodes'[i].id = nodes[i].id
               /\ nodes'[i].label = nodes[i].label
               /\ nodes'[i].level = nodes[i].level
               /\ nodes'[i].heading = nodes[i].heading
               /\ nodes'[i].children = nodes[i].children
               /\ AllMatches(nodes[i].text) = <<>>
                      => nodes'[i].text = nodes[i].text
        /\ document'.id = document.id
        /\ document'.type = document.type
        /\ document'.source = document.source
        /\ document'.heading = document.heading
        /\ document'.nodes = document.nodes]_vars

\* resolve has rewritten the text of a node that has a heading and a
\* child, and left the text of another node as it was.
C8_Witness ==
    /\ pc = "resolved"
    /\ \E i, j \in 1..Len(nodes) :
           /\ nodes[i].text # original[i].text
           /\ nodes[i].children # <<>>
           /\ nodes[j].text = original[j].text
           /\ nodes[j].text # <<>>
    /\ nodes[1].heading # None
    /\ document.links # <<>>

\* Whether p occurs in s as a run of consecutive elements.
Contains(s, p) == \E j \in 1..Len(s) : OccursAt(s, j, p)

\* C9: after resolve, the rewritten text of the node a link comes from
\* holds the link's ref_text immediately followed by a space and the
\* pointer to its target, whatever the number of matches in the node and
\* also when matches of different classes overlap.
C9_PointerFollowsRefText ==
    pc = "resolved" =>
        \A k \in 1..Len(document.links) :
            \E i \in Walked :
                /\ nodes[i].id = document.links[k].source
                /\ Contains(nodes[i].text,
                            document.links[k].ref_text
                            \o Pointer(document.links[k].target))

\* Whether the phrase, one element of the text alphabet, occurs in s in
\* any case.
HasPhrase(s, phrase) == \E k \in 1..Len(s) : LowerEl(s[k]) = phrase

\* "the term", some text of one line between spaces, "means".
HasDefinition(s) ==
    \E a, b \in 1..Len(s) :
        /\ s[a] = "the term" /\ s[a + 1] = " "
        /\ b - 1 > a + 2 /\ s[b - 1] = " " /\ s[b] = "means"
        /\ \A k \in (a + 2)..(b - 2) : s[k] # NL

\* The relation C10 states for the links of a node with text s.
C10_Relation(s) ==
    IF HasPhrase(s, "for purposes of") THEN "for-purposes-of"
    ELSE IF HasPhrase(s, "subject to") THEN "subject-to"
    ELSE IF HasPhrase(s, "except as provided") THEN "exception-to"
    ELSE IF HasPhrase(s, "notwithstanding") THEN "notwithstanding"
    ELSE IF HasDefinition(s) THEN "definition-of"
    ELSE "see-also"

\* C10: every link carries the relation of the first cue, in the fixed
\* order, that occurs in the original text of the node it comes from, and
\* see-also when none occurs; the links of one node share it, whatever the
\* texts of the other nodes hold.
C10_RelationOfFirstCue ==
    pc = "resolved" =>
        /\ \A k \in 1..Len(document.links) :
               \E i \in Walked :
                   /\ original[i].id = document.links[k].source
                   /\ Contains(original[i].text, document.links[k].ref_text)
                   /\ document.links[k].relation
                          = C10_Relation(original[i].text)
        /\ \A i \in Walked : \A m \in Range1(AllMatches(original[i].text)) :
               \E k \in 1..Len(document.links) :
                   /\ document.links[k].source = original[i].id
                   /\ document.links[k].ref_text
                          = SubSeq(original[i].text, m.start, m.end)
                   /\ document.links[k].relation
                          = C10_Relation(original[i].text)

\* Links of three relations in one document, one from a text that holds
\* two cues and one from a text that holds none.
C10_Witness ==
    /\ pc = "resolved"
    /\ \E i \in Walked :
           /\ HasPhrase(original[i].text, "notwithstanding")
           /\ HasPhrase(original[i].text, "subject to")
    /\ \E a, b, c \in 1..Len(document.links) :
           /\ document.links[a].relation = "subject-to"
           /\ document.links[b].relation = "see-also"
           /\ document.links[c].relation = "definition-of"

\* How many links of the list equal l.
LinkCount(links, l) == Cardinality({k \in 1..Len(links) : links[k] = l})

\* Whether the annotated text of the node link l comes from holds l's
\* phrase followed by its pointer.
Annotated(ns, l) ==
    \E i \in 1..Len(ns) :
        /\ ns[i].id = l.source
        /\ Contains(ns[i].text, l.ref_text \o Pointer(l.target))

\* C11: resolve run again on a document it has annotated does not
\* duplicate links: every link whose phrase the annotated text shows
\* followed by its pointer is in the second run's list as often as in the
\* first run's, and the second run's list equals the first run's.
C11_RerunKeepsLinks ==
    [][(pc = "resolved" /\ pc' = "resolved again") =>
          /\ \A k \in 1..Len(document.links) :
                 Annotated(nodes, document.links[k]) =>
                     LinkCount(document'.links, document.links[k])
                         = LinkCount(document.links, document.links[k])
          /\ document'.links = document.links]_vars

\* C14: resolve is idempotent on node text: the second run leaves every
\* node's text as the first run wrote it, so a phrase already followed by
\* its pointer gets no second pointer.
C14_RerunKeepsText ==
    [][(pc = "resolved" /\ pc' = "resolved again") =>
          \A i \in 1..Len(nodes) : nodes'[i].text = nodes[i].text]_vars

\* Whether the hint has the compact form prefix:title:section.
C12_Compact(hint) ==
    /\ hint # <<>>
    /\ Len(SplitColon(hint)) >= 3
    /\ Len(SplitColon(hint)[1]) = 1
    /\ LowerFlag(SplitColon(hint)[1][1]) \in {"usc", "cfr"}

\* Whether the hint holds a header metadata_from_hint recognizes under the
\* flag.
C12_Header(hint, source_type) ==
    \/ UpperFlag(source_type) = "CFR" /\ SearchCFR(hint, 1).found
    \/ SearchUSC(hint, 1).found

\* The fallback id: usc:<hint> or cfr:<hint>, :unknown for an empty hint.
C12_FallbackId(hint, source_type) ==
    <<IF UpperFlag(source_type) = "USC" THEN "usc" ELSE "cfr", ":">>
    \o (IF hint = <<>> THEN <<"unknown">> ELSE hint)

\* C12: in markup mode, a citation hint that is neither compact nor holds
\* a recognized header makes parse signal manual assistance and build no
\* tree, also when the markup holds a well-formed section element, in
\* which case the document carries the fallback id.
C12_FallbackNeedsAssist ==
    (/\ input.format = "uslm"
     /\ pc \in {"returned", "resolved", "resolved again"}
     /\ ~C12_Compact(Strip(input.citation_hint))
     /\ ~C12_Header(Strip(input.citation_hint), input.source_type)) =>
        /\ needs_llm_assist
        /\ document.nodes = <<>>
        /\ SectionElement(input.markup) # 0 =>
               document.id = C12_FallbackId(Strip(input.citation_hint),
                                            input.source_type)

\* The line of the text on which the header match m starts.
C13_HeaderLine(text, m) ==
    SubSeq(text, m.start, SkipSet(text, m.start, Range1(text) \ {NL}) - 1)

\* C13: in text mode, when the line the recognized header starts on is a
\* header line, also one with no trailing heading text and followed by
\* blank or body lines, that line is skipped: the document heading is the
\* trailing text of that line alone (None when it has none), so no other
\* line is taken into the header, and the text of no node holds the header
\* line.
C13_HeaderLineSkipped ==
    (/\ input.format = "text"
     /\ pc = "returned"
     /\ ~needs_llm_assist
     /\ HeaderMatch(C13_HeaderLine(normalize(input.source_text),
                        HeaderMatch(normalize(input.source_text),
                                    input.source_type)),
                    input.source_type).found) =>
        /\ document.heading
               = OrNone(HeaderMatch(
                            C13_HeaderLine(normalize(input.source_text),
                                HeaderMatch(normalize(input.source_text),
                                            input.source_type)),
                            input.source_type).heading)
        /\ \A i \in 1..Len(nodes) :
               ~Contains(nodes[i].text,
                         Strip(C13_HeaderLine(normalize(input.source_text),
                                   HeaderMatch(normalize(input.source_text),
                                               input.source_type))))

====
